---- MODULE Spec2Model ----
(***************************************************************************)
(* A model of the CCVI codec (CCVI.Converter.py) and of the render cache   *)
(* of the CCVI viewer (CCVI.Viewer.py).                                    *)
(*                                                                         *)
(* Conventions                                                             *)
(*   - a raster is [width, height, px], px the pixels in row-major order,  *)
(*     each pixel a tuple <<R, G, B, A>> of bytes; arr[y, x] is            *)
(*     px[y * width + x + 1];                                              *)
(*   - a JSON object is a function from the keys that are present to their *)
(*     values, so that a missing key is a key outside DOMAIN;              *)
(*   - the floats of a document are kept in fixed point: alpha in units of *)
(*     1/(255*Frac), height as the channel sum (over 3*255), saturation as *)
(*     max-min (over 255); margin_error in hundredths, as the slider sets  *)
(*     it;                                                                 *)
(*   - the viewer's zoom factor b * 1.2^e is kept as its base b (1.0, the  *)
(*     upper clamp 10.0 or the lower clamp 0.1) and its exponent e, its    *)
(*     animation phase as the number of 0.1 steps since the last reset.    *)
(***************************************************************************)
EXTENDS Integers, Sequences, FiniteSets, TLC

VARIABLES
    img,            \* the source raster convert_to_ccvi opens
    margin_error,   \* the margin of the last convert_to_ccvi call (hundredths)
    ccvi_file,      \* the persisted document
    out,            \* what convert_from_ccvi produced
    pc,             \* "image" | "encoded" | "file" | "decoded" | "viewer"
    viewer          \* the fields of the CCVIViewer object

vars == <<img, margin_error, ccvi_file, out, pc, viewer>>

\* ------------------------------------------------------------------ bounds

\* Largest number of pixels of a source raster.
MaxPixels == 5

\* Fixed-point steps between two consecutive byte levels of an alpha.
Frac == 10

\* The byte range of a channel.
Byte == 255

\* The slider's range: margin_error = value / 100.0.
SliderMax == 100

\* The pixels source rasters are made of: two pixels of the same R,G,B with
\* different alpha, a color that sorts before it, and a fully transparent one.
Palette == { <<255, 0, 0, 255>>, <<255, 0, 0, 128>>, <<0, 0, 255, 255>>, <<0, 0, 0, 0>> }

\* The slider values the encoder is run with. At these, value/100.0,
\* 1 - margin_error and count * (1 - margin_error) are exact in binary
\* floating point, so that int() is the floor of the exact product.
Margins == {0, 25, 50, 75, 100}

\* ----------------------------------------------------------------- helpers

Max(a, b) == IF a >= b THEN a ELSE b
Min(a, b) == IF a <= b THEN a ELSE b

\* Lexicographic order on tuples of one length (numpy's row order in unique).
RECURSIVE LexLess(_, _)
LexLess(a, b) ==
    IF Len(a) = 0 THEN FALSE
    ELSE IF a[1] # b[1] THEN a[1] < b[1]
    ELSE LexLess(Tail(a), Tail(b))

\* Mutant of np_unique: the distinct rows in descending order.
RECURSIVE np_unique_descending(_)
np_unique_descending(S) ==
    IF S = {} THEN <<>>
    ELSE LET m == CHOOSE r \in S : \A q \in S \ {r} : LexLess(q, r)
         IN  <<m>> \o np_unique_descending(S \ {m})

\* np.unique(rows, axis=0): the distinct rows, sorted ascending.
RECURSIVE np_unique(_)
np_unique(S) ==
    IF S = {} THEN <<>>
    ELSE LET m == CHOOSE r \in S : \A q \in S \ {r} : LexLess(r, q)
         IN  <<m>> \o np_unique(S \ {m})

RGB(p) == <<p[1], p[2], p[3]>>

\* arr[y, x]
arr(im, y, x) == im.px[y * im.width + x + 1]

\* The (y, x) coordinates of a width x height raster in row-major order.
Coords(w, h) == [i \in 1..(w * h) |-> <<(i - 1) \div w, (i - 1) % w>>]

\* np.argwhere(np.all(arr[:, :, :3] == color[:3], axis=2))
mask_indices(im, color) ==
    SelectSeq(Coords(im.width, im.height),
              LAMBDA c : RGB(arr(im, c[1], c[2])) = RGB(color))

\* Mutant of num_vectors: the margin taken as the share to keep.
num_vectors_inverted(count, m) == Max(1, (count * m) \div SliderMax)

\* max(1, int(count * (1 - margin_error)))
num_vectors(count, m) == Max(1, (count * (SliderMax - m)) \div SliderMax)

\* max(1, count // num_vectors)
stride(count, m) == Max(1, count \div num_vectors(count, m))

\* Mutant of Slice: the last partial stride window dropped.
Slice_truncated(seq, k) == [j \in 1..Max(1, Len(seq) \div k) |-> seq[(j - 1) * k + 1]]

\* seq[::k]
Slice(seq, k) == [j \in 1..((Len(seq) + k - 1) \div k) |-> seq[(j - 1) * k + 1]]

\* One vector of a plane, from the source pixel at (y, x).
vector(im, c) ==
    LET p == arr(im, c[1], c[2])
    IN  [x |-> c[2], y |-> c[1],
         height |-> p[1] + p[2] + p[3],
         saturation |-> Max(p[1], Max(p[2], p[3])) - Min(p[1], Min(p[2], p[3])),
         alpha |-> p[4] * Frac]

\* The plane built for one row of np.unique's result.
plane(im, color, m) ==
    LET idx     == mask_indices(im, color)
        sampled == Slice(idx, stride(Len(idx), m))
    IN  [color |-> RGB(color),
         vectors |-> [j \in 1..Len(sampled) |-> vector(im, sampled[j])]]

\* The rows the encoder makes planes of.
colors(im) == np_unique({im.px[i] : i \in 1..Len(im.px)})

\* The document convert_to_ccvi writes.
encode(im, m) ==
    LET cs == colors(im)
    IN  [width |-> im.width, height |-> im.height,
         planes |-> [i \in 1..Len(cs) |-> plane(im, cs[i], m)],
         margin_error |-> m]

\* ----------------------------------------------------------------- decoder

\* Mutant of AlphaByte: the alpha scaled to 256 levels.
AlphaByte_div256(alpha) == (alpha * Byte) \div (Frac * 256)

\* int(vec["alpha"] * 255)
AlphaByte(alpha) == alpha \div Frac

\* numpy's index rule on an axis of length n: -n <= i < n, negatives count
\* from the end.
IndexOk(i, n) == -n <= i /\ i < n
NormIndex(i, n) == IF i < 0 THEN i + n ELSE i

Failed == [err |-> TRUE, canvas |-> <<>>]

\* Mutant of write_vector: an absent alpha taken as 1.0, as the viewer does.
write_vector_default_alpha(st, color, vec, w, h) ==
    IF st.err THEN st
    ELSE IF ~({"x", "y"} \subseteq DOMAIN vec) THEN [err |-> TRUE, canvas |-> <<>>]
    ELSE IF ~(-h <= vec.y /\ vec.y < h /\ -w <= vec.x /\ vec.x < w) THEN [err |-> TRUE, canvas |-> <<>>]
    ELSE [err |-> FALSE,
          canvas |-> [st.canvas EXCEPT
                        ![(IF vec.y < 0 THEN vec.y + h ELSE vec.y) * w
                          + (IF vec.x < 0 THEN vec.x + w ELSE vec.x) + 1] =
                            <<color[1], color[2], color[3],
                              IF "alpha" \in DOMAIN vec THEN vec.alpha \div Frac ELSE Byte>>]]

\* The body of the inner loop: one vector written to the canvas.
write_vector(st, color, vec, w, h) ==
    IF st.err THEN st
    ELSE IF ~({"x", "y"} \subseteq DOMAIN vec) THEN Failed
    ELSE IF ~(IndexOk(vec.y, h) /\ IndexOk(vec.x, w)) THEN Failed
    ELSE IF "alpha" \notin DOMAIN vec THEN Failed
    ELSE [err |-> FALSE,
          canvas |-> [st.canvas EXCEPT
                        ![NormIndex(vec.y, h) * w + NormIndex(vec.x, w) + 1] =
                            <<color[1], color[2], color[3], AlphaByte(vec.alpha)>>]]

RECURSIVE write_vectors(_, _, _, _, _)
write_vectors(st, color, vecs, w, h) ==
    IF Len(vecs) = 0 THEN st
    ELSE write_vectors(write_vector(st, color, Head(vecs), w, h), color, Tail(vecs), w, h)

\* The body of the outer loop: one plane.
write_plane(st, pl, w, h) ==
    IF st.err THEN st
    ELSE IF "color" \notin DOMAIN pl THEN Failed
    ELSE IF "vectors" \notin DOMAIN pl THEN Failed
    ELSE write_vectors(st, pl.color, pl.vectors, w, h)

RECURSIVE write_planes(_, _, _, _)
write_planes(st, pls, w, h) ==
    IF Len(pls) = 0 THEN st
    ELSE write_planes(write_plane(st, Head(pls), w, h), Tail(pls), w, h)

\* The canvas after the loops, or a failure (KeyError, IndexError).
decode(data) ==
    IF ~({"width", "height"} \subseteq DOMAIN data) THEN Failed
    ELSE IF "planes" \notin DOMAIN data THEN Failed
    ELSE write_planes([err |-> FALSE,
                       canvas |-> [i \in 1..(data.width * data.height) |-> <<0, 0, 0, 0>>]],
                      data.planes, data.width, data.height)

\* Mutant of any_alpha_below: only fully transparent pixels counted.
any_alpha_zero(canvas) == \E i \in 1..Len(canvas) : canvas[i][4] = 0

\* np.any(canvas[:, :, 3] < 255)
any_alpha_below(canvas) == \E i \in 1..Len(canvas) : canvas[i][4] < Byte

NoOut == [status |-> "none", ext |-> "", canvas |-> <<>>]

\* What convert_from_ccvi leaves behind: nothing on an exception, or the saved
\* image's format with the canvas it was made of.
decoded(data) ==
    LET st == decode(data)
    IN  IF st.err THEN [status |-> "error", ext |-> "", canvas |-> <<>>]
        ELSE [status |-> "saved",
              ext |-> IF any_alpha_below(st.canvas) THEN "png" ELSE "jpeg",
              canvas |-> st.canvas]

\* ------------------------------------------------------------------ viewer

\* The spin box's start value, the timer's phase wrap (63 * 0.1 > 2 * pi) and
\* the zoom clamps in steps of 1.2: 1.2^13 > 10 and 0.1 * 1.2^26 > 10.
DefaultVectorSize == 2
PhaseSteps == 63
StepsOneToClamp == 13
StepsClampToClamp == 26

\* The margin shown for a document without margin_error ('N/A').
NA == -1

\* floor(10^4 * sin(0.1 * n)) for n = 0..62; with it max(1, int(size * pulse))
\* is exact for every size of the spin box (1..10).
SinScale == 10000
SinTable ==
    << 0, 998, 1986, 2955, 3894, 4794, 5646, 6442, 7173, 7833, 8414, 8912, 9320,
       9635, 9854, 9974, 9995, 9916, 9738, 9463, 9092, 8632, 8084, 7457, 6754,
       5984, 5155, 4273, 3349, 2392, 1411, 415, -584, -1578, -2556, -3508, -4426,
       -5299, -6119, -6878, -7569, -8183, -8716, -9162, -9517, -9776, -9937,
       -10000, -9962, -9825, -9590, -9259, -8835, -8323, -7728, -7056, -6313,
       -5507, -4647, -3739, -2795, -1822, -831 >>

NoData == [k \in {} |-> 0]

NoPixmap == [null |-> TRUE, width |-> 0, height |-> 0, ops |-> <<>>]

NoDisplay == [pixmap |-> NoPixmap, zoom |-> [base |-> "one", exp |-> 0]]

NoInfo == [width |-> 0, height |-> 0, planes |-> 0, vectors |-> 0, margin |-> NA]

\* CCVIViewer.__init__
ViewerInit ==
    [ccvi_data |-> NoData,
     zoom_factor |-> [base |-> "one", exp |-> 0],
     show_vectors |-> TRUE,
     vector_size |-> DefaultVectorSize,
     original_pixmap |-> NoPixmap,
     display_pixmap |-> NoDisplay,
     needs_rerender |-> TRUE,
     animation_phase |-> 0,
     is_animating |-> FALSE,
     timer_active |-> FALSE,
     file_label |-> "none",
     info_label |-> NoInfo,
     raised |-> FALSE,
     alive |-> TRUE]

\* `not self.ccvi_data`: None and the empty object alike.
Falsy(data) == DOMAIN data = {}

RECURSIVE SumLen(_)
SumLen(pls) == IF Len(pls) = 0 THEN 0 ELSE Len(Head(pls).vectors) + SumLen(Tail(pls))

update_info(v) ==
    IF Falsy(v.ccvi_data) THEN v
    ELSE IF "planes" \notin DOMAIN v.ccvi_data THEN [v EXCEPT !.raised = TRUE]
    ELSE IF \E i \in 1..Len(v.ccvi_data.planes) : "vectors" \notin DOMAIN v.ccvi_data.planes[i]
         THEN [v EXCEPT !.raised = TRUE]
    ELSE IF ~({"width", "height"} \subseteq DOMAIN v.ccvi_data) THEN [v EXCEPT !.raised = TRUE]
    ELSE [v EXCEPT !.info_label =
            [width |-> v.ccvi_data.width, height |-> v.ccvi_data.height,
             planes |-> Len(v.ccvi_data.planes),
             vectors |-> SumLen(v.ccvi_data.planes),
             margin |-> IF "margin_error" \in DOMAIN v.ccvi_data
                        THEN v.ccvi_data.margin_error ELSE NA]]

\* max(1, int(size * (sin(phase) * 0.3 + 0.7))) while animating, else size.
animated_size(size, animating, phase) ==
    IF animating
    THEN Max(1, (size * (SinTable[phase + 1] * 3 + 7 * SinScale)) \div (10 * SinScale))
    ELSE size

\* int(vec.get('alpha', 1.0) * 255)
vec_alpha(vec) == IF "alpha" \in DOMAIN vec THEN AlphaByte(vec.alpha) ELSE AlphaByte(Byte * Frac)

\* What the painter draws for one vector: an ellipse of the animated size, or
\* a point (size 0).
draw(color, vec, show, size, animating, phase) ==
    [x |-> vec.x, y |-> vec.y, color |-> color, alpha |-> vec_alpha(vec),
     size |-> IF show THEN animated_size(size, animating, phase) ELSE 0]

RECURSIVE draw_planes(_, _, _, _, _)
draw_planes(pls, show, size, animating, phase) ==
    IF Len(pls) = 0 THEN <<>>
    ELSE [j \in 1..Len(Head(pls).vectors) |->
            draw(Head(pls).color, Head(pls).vectors[j], show, size, animating, phase)]
         \o draw_planes(Tail(pls), show, size, animating, phase)

\* A key render_base_image reads is absent (KeyError).
render_raises(data) ==
    \/ ~({"width", "height", "planes"} \subseteq DOMAIN data)
    \/ \E i \in 1..Len(data.planes) :
         \/ ~({"color", "vectors"} \subseteq DOMAIN data.planes[i])
         \/ \E j \in 1..Len(data.planes[i].vectors) :
              ~({"x", "y"} \subseteq DOMAIN data.planes[i].vectors[j])

\* The image render_base_image paints for a document under the given settings.
base_image(data, show, size, animating, phase) ==
    [null |-> FALSE, width |-> data.width, height |-> data.height,
     ops |-> draw_planes(data.planes, show, size, animating, phase)]

render_base_image(v) ==
    IF render_raises(v.ccvi_data) THEN [v EXCEPT !.raised = TRUE]
    ELSE [v EXCEPT !.original_pixmap =
            base_image(v.ccvi_data, v.show_vectors, v.vector_size,
                       v.is_animating, v.animation_phase)]

apply_zoom(v) ==
    IF v.original_pixmap.null THEN v
    ELSE [v EXCEPT !.display_pixmap = [pixmap |-> v.original_pixmap, zoom |-> v.zoom_factor]]

render_image(v) ==
    IF Falsy(v.ccvi_data) THEN v
    ELSE LET v1 == IF v.needs_rerender \/ v.original_pixmap.null
                   THEN LET r == render_base_image(v)
                        IN  IF r.raised THEN r ELSE [r EXCEPT !.needs_rerender = FALSE]
                   ELSE v
         IN  IF v1.raised THEN v1 ELSE apply_zoom(v1)

\* min(10.0, zoom_factor * 1.2)
times_1_2(z) ==
    IF z.base = "max" THEN (IF z.exp + 1 > 0 THEN [base |-> "max", exp |-> 0]
                            ELSE [z EXCEPT !.exp = z.exp + 1])
    ELSE IF z.base = "one" THEN (IF z.exp + 1 >= StepsOneToClamp THEN [base |-> "max", exp |-> 0]
                                 ELSE [z EXCEPT !.exp = z.exp + 1])
    ELSE (IF z.exp + 1 >= StepsClampToClamp THEN [base |-> "max", exp |-> 0]
          ELSE [z EXCEPT !.exp = z.exp + 1])

\* max(0.1, zoom_factor / 1.2)
over_1_2(z) ==
    IF z.base = "min" THEN (IF z.exp - 1 < 0 THEN [base |-> "min", exp |-> 0]
                            ELSE [z EXCEPT !.exp = z.exp - 1])
    ELSE IF z.base = "one" THEN (IF z.exp - 1 <= -StepsOneToClamp THEN [base |-> "min", exp |-> 0]
                                 ELSE [z EXCEPT !.exp = z.exp - 1])
    ELSE (IF z.exp - 1 <= -StepsClampToClamp THEN [base |-> "min", exp |-> 0]
          ELSE [z EXCEPT !.exp = z.exp - 1])

zoom_in(v) == apply_zoom([v EXCEPT !.zoom_factor = times_1_2(v.zoom_factor)])

zoom_out(v) == apply_zoom([v EXCEPT !.zoom_factor = over_1_2(v.zoom_factor)])

reset_view(v) == apply_zoom([v EXCEPT !.zoom_factor = [base |-> "one", exp |-> 0]])

on_vector_toggle(v, checked) ==
    render_image([v EXCEPT !.show_vectors = checked, !.needs_rerender = TRUE])

on_vector_size_change(v, size) ==
    render_image([v EXCEPT !.vector_size = size, !.needs_rerender = TRUE])

on_animation_toggle(v, checked) ==
    IF checked
    THEN [v EXCEPT !.is_animating = TRUE, !.timer_active = TRUE]
    ELSE render_image([v EXCEPT !.is_animating = FALSE, !.timer_active = FALSE,
                                !.needs_rerender = TRUE])

on_animation_frame(v) ==
    LET v1 == [v EXCEPT !.animation_phase =
                 IF v.animation_phase + 1 >= PhaseSteps THEN 0 ELSE v.animation_phase + 1]
    IN  IF v1.is_animating THEN render_image([v1 EXCEPT !.needs_rerender = TRUE]) ELSE v1

\* load_ccvi_file: the try block, and the except clause for whatever it raises.
load_ccvi_file(v, data) ==
    LET v1 == reset_view([v EXCEPT !.ccvi_data = data, !.file_label = "loaded"])
        v2 == update_info(v1)
        v3 == IF v2.raised THEN v2 ELSE render_image([v2 EXCEPT !.needs_rerender = TRUE])
    IN  IF v3.raised THEN [v3 EXCEPT !.raised = FALSE, !.file_label = "error"] ELSE v3

\* A slot other than load_ccvi_file has no except clause: an exception in it
\* ends the application where it was raised.
slot(v) == IF v.raised THEN [v EXCEPT !.alive = FALSE] ELSE v

\* ------------------------------------------------- specification: encoder

Dims == {d \in (1..MaxPixels) \X (1..MaxPixels) : d[1] * d[2] <= MaxPixels}

Rasters == UNION {[width : {d[1]}, height : {d[2]}, px : [1..(d[1] * d[2]) -> Palette]] : d \in Dims}

NoFile == [width |-> 0, height |-> 0, planes |-> <<>>, margin_error |-> 0]

InitEnc ==
    /\ img \in Rasters
    /\ margin_error = 0
    /\ ccvi_file = NoFile
    /\ out = NoOut
    /\ pc = "image"
    /\ viewer = ViewerInit

convert_to_ccvi(m) ==
    /\ pc = "image"
    /\ margin_error' = m
    /\ ccvi_file' = encode(img, m)
    /\ pc' = "encoded"
    /\ UNCHANGED <<img, out, viewer>>

convert_from_ccvi ==
    /\ pc \in {"encoded", "file"}
    /\ out' = decoded(ccvi_file)
    /\ pc' = "decoded"
    /\ UNCHANGED <<img, margin_error, ccvi_file, viewer>>

NextEnc ==
    \/ \E m \in Margins : convert_to_ccvi(m)
    \/ convert_from_ccvi

SpecEnc == InitEnc /\ [][NextEnc]_vars

\* ------------------------------------------------------ claims: encoder

\* Scan position (1-based, row-major) of a vector's pixel.
ScanPos(im, v) == v.y * im.width + v.x + 1

\* Scan positions of the pixels of one R,G,B.
Positions(im, rgb) == {i \in 1..Len(im.px) : RGB(im.px[i]) = rgb}

FirstPos(im, rgb) == CHOOSE i \in Positions(im, rgb) : \A j \in Positions(im, rgb) : i <= j

Encoded == pc \in {"encoded", "decoded"}

\* C1: the document convert_to_ccvi produces holds no two planes of the same
\* color, also for rasters where two pixels share R,G,B and differ in alpha.
C1_PlaneColorsUnique ==
    Encoded =>
        \A i, j \in 1..Len(ccvi_file.planes) :
            i # j => ccvi_file.planes[i].color # ccvi_file.planes[j].color

ClaimStride(count, m) ==
    Max(1, count \div Max(1, (count * (SliderMax - m)) \div SliderMax))

\* C3 as stated: a plane of population count holds max(1, count // k) vectors.
C3_RetainedCountFloor ==
    Encoded =>
        \A i \in 1..Len(ccvi_file.planes) :
            LET count == Cardinality(Positions(img, ccvi_file.planes[i].color))
            IN  Len(ccvi_file.planes[i].vectors) = Max(1, count \div ClaimStride(count, margin_error))

\* C3 amended: a plane of population count holds ceil(count / k) vectors, the
\* mask coordinates at indices 0, k, 2k, ... of the row-major list: vector j
\* (from 0) is the pixel of the plane's R,G,B with exactly j*k such pixels
\* before it in the scan.
C3_RetainedCountCeil ==
    Encoded =>
        \A i \in 1..Len(ccvi_file.planes) :
            LET pl    == ccvi_file.planes[i]
                pos   == Positions(img, pl.color)
                count == Cardinality(pos)
                k     == ClaimStride(count, margin_error)
            IN  /\ Len(pl.vectors) = (count + k - 1) \div k
                /\ \A j \in 1..Len(pl.vectors) :
                     /\ ScanPos(img, pl.vectors[j]) \in pos
                     /\ Cardinality({q \in pos : q < ScanPos(img, pl.vectors[j])}) = (j - 1) * k

\* A plane of 5 pixels at margin 0.5: stride 2, indices 0, 2, 4.
C3_Witness ==
    /\ pc = "encoded"
    /\ margin_error = 50
    /\ \E i \in 1..Len(ccvi_file.planes) :
         /\ Cardinality(Positions(img, ccvi_file.planes[i].color)) = 5
         /\ Len(ccvi_file.planes[i].vectors) = 3

\* C4: encoding with margin_error = 0.0 and decoding the result gives a canvas
\* equal to the source raster at every pixel, alpha byte included.
C4_ZeroErrorRoundTrip ==
    (pc = "decoded" /\ margin_error = 0) =>
        /\ out.status = "saved"
        /\ out.canvas = img.px

\* A decoded raster with a partially and a fully transparent pixel.
C4_Witness ==
    /\ pc = "decoded"
    /\ margin_error = 0
    /\ out.status = "saved"
    /\ \E i, j \in 1..Len(img.px) :
         /\ img.px[i][4] = 0
         /\ img.px[j][4] = 128

\* C8: with margin_error = 1.0 every plane holds exactly one vector, the first
\* pixel of the plane's color in the row-major scan.
C8_OneVectorPerPlane ==
    (Encoded /\ margin_error = SliderMax) =>
        \A i \in 1..Len(ccvi_file.planes) :
            LET pl == ccvi_file.planes[i]
            IN  /\ Len(pl.vectors) = 1
                /\ ScanPos(img, pl.vectors[1]) = FirstPos(img, pl.color)

\* A plane of several pixels, the first of them not the raster's first pixel.
C8_Witness ==
    /\ pc = "encoded"
    /\ margin_error = SliderMax
    /\ \E i \in 1..Len(ccvi_file.planes) :
         /\ Cardinality(Positions(img, ccvi_file.planes[i].color)) >= 3
         /\ FirstPos(img, ccvi_file.planes[i].color) > 1

\* ------------------------------------------------- specification: decoder
\* convert_from_ccvi on documents that no encoder need have written.

\* Largest number of vectors of a hand-written document, over all its planes.
MaxVecs == 2

\* Largest number of planes of a hand-written document.
MaxPlanes == 2

\* The canvases of hand-written documents.
DecDims == { <<1, 1>>, <<2, 1>> }

\* The alphas of hand-written vectors: 128/255, an alpha whose product with
\* 255 has a fraction above one half (254.6 at Frac = 10), and 1.0.
HandAlphas == { 128 * Frac, 254 * Frac + (Frac \div 2) + 1, Byte * Frac }

\* Their coordinates: every pixel of the canvas, one past the last column and
\* row, -1 on each axis, and one before the first wrapped column and row.
HandCoords(w, h) ==
    ((0..(w - 1)) \X (0..(h - 1)))
        \cup { <<w, 0>>, <<-1, 0>>, <<-w - 1, 0>>, <<0, h>>, <<0, -1>>, <<0, -h - 1>> }

HandVectors(w, h) ==
    { [x |-> c[1], y |-> c[2], height |-> 255, saturation |-> 255, alpha |-> a] :
        c \in HandCoords(w, h), a \in HandAlphas }

\* The color of the i-th plane of a hand-written document.
HandColor(i) == IF i % 2 = 1 THEN <<255, 0, 0>> ELSE <<0, 0, 255>>

\* The ways to cut a list of total vectors into k planes: the index of the last
\* vector of each plane.
Cuts(k, total) ==
    { c \in [1..k -> 0..total] :
        /\ \A i \in 1..(k - 1) : c[i] <= c[i + 1]
        /\ k > 0 => c[k] = total }

\* The document of the planes that cuts makes of the vectors of pool.
HandDoc(d, pool, cuts) ==
    [width |-> d[1], height |-> d[2], margin_error |-> 0,
     planes |-> [i \in 1..Len(cuts) |->
                    [color |-> HandColor(i),
                     vectors |-> SubSeq(pool, (IF i = 1 THEN 0 ELSE cuts[i - 1]) + 1, cuts[i])]]]

InitDec ==
    /\ img = [width |-> 1, height |-> 1, px |-> << <<0, 0, 0, 0>> >>]
    /\ margin_error = 0
    /\ \E d \in DecDims, total \in 0..MaxVecs, k \in 0..MaxPlanes :
         /\ k = 0 => total = 0
         /\ \E pool \in [1..total -> HandVectors(d[1], d[2])], cuts \in Cuts(k, total) :
              ccvi_file = HandDoc(d, pool, cuts)
    /\ out = NoOut
    /\ pc = "file"
    /\ viewer = ViewerInit

NextDec == convert_from_ccvi

SpecDec == InitDec /\ [][NextDec]_vars

\* ------------------------------------------------------ claims: decoder

\* The vectors of a document in plane/vector order.
RECURSIVE FlatVectors(_)
FlatVectors(pls) ==
    IF Len(pls) = 0 THEN <<>> ELSE Head(pls).vectors \o FlatVectors(Tail(pls))

InCanvas(v, w, h) == 0 <= v.x /\ v.x < w /\ 0 <= v.y /\ v.y < h

InBoundsDoc(d) ==
    \A i \in 1..Len(FlatVectors(d.planes)) : InCanvas(FlatVectors(d.planes)[i], d.width, d.height)

\* The indices (in document order) of the vectors at canvas position i.
Writers(d, i) ==
    { j \in 1..Len(FlatVectors(d.planes)) :
        FlatVectors(d.planes)[j].y * d.width + FlatVectors(d.planes)[j].x + 1 = i }

LastWriter(d, i) == CHOOSE j \in Writers(d, i) : \A k \in Writers(d, i) : k <= j

\* C5: a document with a vector outside [0, width) x [0, height), negative
\* coordinates included, makes convert_from_ccvi fail; no image is produced.
C5_OutOfBoundsFails ==
    (pc = "decoded" /\ ~InBoundsDoc(ccvi_file)) => out.status = "error"

\* C6 as stated: jpeg when every vector has alpha 1.0 and every pixel is
\* covered; png when a pixel is uncovered or any vector has alpha below 1.0.
C6_FormatSelection ==
    (pc = "decoded" /\ InBoundsDoc(ccvi_file)) =>
        LET fv      == FlatVectors(ccvi_file.planes)
            n       == ccvi_file.width * ccvi_file.height
            covered == \A i \in 1..n : Writers(ccvi_file, i) # {}
            opaque  == \A j \in 1..Len(fv) : fv[j].alpha = Byte * Frac
        IN  /\ (opaque /\ covered) => out.ext = "jpeg"
            /\ (~covered \/ \E j \in 1..Len(fv) : fv[j].alpha < Byte * Frac) => out.ext = "png"

\* C6 amended: for an in-bounds document, jpeg exactly when every canvas pixel
\* is covered and the last vector written to each pixel, in document order, has
\* alpha 1.0; png otherwise.
C6_FormatByLastWrite ==
    (pc = "decoded" /\ InBoundsDoc(ccvi_file)) =>
        LET fv == FlatVectors(ccvi_file.planes)
            n  == ccvi_file.width * ccvi_file.height
            opaque == \A i \in 1..n :
                         /\ Writers(ccvi_file, i) # {}
                         /\ fv[LastWriter(ccvi_file, i)].alpha = Byte * Frac
        IN  /\ out.status = "saved"
            /\ out.ext = IF opaque THEN "jpeg" ELSE "png"

\* A vector of alpha below 1.0 overwritten by one of alpha 1.0: jpeg.
C6_Witness ==
    /\ pc = "decoded"
    /\ InBoundsDoc(ccvi_file)
    /\ \E j \in 1..Len(FlatVectors(ccvi_file.planes)) :
         FlatVectors(ccvi_file.planes)[j].alpha < Byte * Frac
    /\ out.ext = "jpeg"

\* round(alpha * 255): to the nearest integer, ties to the even one.
Round255(alpha) ==
    LET q == alpha \div Frac
        r == alpha % Frac
    IN  IF 2 * r > Frac THEN q + 1
        ELSE IF 2 * r < Frac THEN q
        ELSE IF q % 2 = 0 THEN q ELSE q + 1

\* C9: the alpha channel of the canvas at (x, y) holds round(alpha * 255) of
\* the last vector, in document order, that targets (x, y).
C9_AlphaRounded ==
    (pc = "decoded" /\ InBoundsDoc(ccvi_file)) =>
        /\ out.status = "saved"
        /\ \A i \in 1..(ccvi_file.width * ccvi_file.height) :
             Writers(ccvi_file, i) # {} =>
                 out.canvas[i][4] =
                     Round255(FlatVectors(ccvi_file.planes)[LastWriter(ccvi_file, i)].alpha)

\* ------------------------------------------------- specification: readers
\* Both readers on one persisted document some of whose fields are absent.

Restrict(f, K) == [k \in (DOMAIN f) \cap K |-> f[k]]

TopKeys == {"width", "height", "planes", "margin_error"}
PlaneKeys == {"color", "vectors"}
VecKeys == {"x", "y", "height", "saturation", "alpha"}

\* A 2 x 1 document of one plane and two vectors; the fields in tk, pk and vk
\* are kept at the top level, in the plane and in the second vector.
PartialDoc(tk, pk, vk) ==
    Restrict([width |-> 2, height |-> 1, margin_error |-> 50,
              planes |-> << Restrict([color |-> <<255, 0, 0>>,
                                      vectors |-> << [x |-> 0, y |-> 0, height |-> 255,
                                                      saturation |-> 255, alpha |-> Byte * Frac],
                                                     Restrict([x |-> 1, y |-> 0, height |-> 255,
                                                               saturation |-> 255,
                                                               alpha |-> 128 * Frac], vk) >>],
                                     pk) >>],
             tk)

PartialDocs ==
    { PartialDoc(tk, pk, vk) : tk \in SUBSET TopKeys, pk \in SUBSET PlaneKeys, vk \in SUBSET VecKeys }

InitRead ==
    /\ img = [width |-> 1, height |-> 1, px |-> << <<0, 0, 0, 0>> >>]
    /\ margin_error = 0
    /\ ccvi_file \in PartialDocs
    /\ out = NoOut
    /\ pc = "file"
    /\ viewer = ViewerInit

\* File > Open on the persisted document.
OpenFile ==
    /\ viewer.alive
    /\ viewer' = load_ccvi_file(viewer, ccvi_file)
    /\ UNCHANGED <<img, margin_error, ccvi_file, out, pc>>

NextRead ==
    \/ convert_from_ccvi
    \/ OpenFile

SpecRead == InitRead /\ [][NextRead]_vars

\* ------------------------------------------------------ claims: readers

\* Some field the format requires is absent from the document.
RequiredMissing(d) ==
    \/ ~(TopKeys \subseteq DOMAIN d)
    \/ \E i \in 1..Len(d.planes) :
         \/ ~(PlaneKeys \subseteq DOMAIN d.planes[i])
         \/ \E j \in 1..Len(d.planes[i].vectors) :
              ~(VecKeys \subseteq DOMAIN d.planes[i].vectors[j])

\* Some field among the top-level width, height and planes, a plane's color and
\* vectors, and a vector's fields vk is absent from the document.
ReadMissing(d, vk) ==
    \/ ~({"width", "height", "planes"} \subseteq DOMAIN d)
    \/ \E i \in 1..Len(d.planes) :
         \/ ~(PlaneKeys \subseteq DOMAIN d.planes[i])
         \/ \E j \in 1..Len(d.planes[i].vectors) :
              ~(vk \subseteq DOMAIN d.planes[i].vectors[j])

ViewDocs ==
    { PartialDoc(TopKeys, PlaneKeys, VecKeys),
      [width |-> 1, height |-> 1, margin_error |-> 0,
       planes |-> << [color |-> <<0, 0, 255>>,
                      vectors |-> << [x |-> 0, y |-> 0, height |-> 255, saturation |-> 255,
                                      alpha |-> Byte * Frac] >>] >>],
      PartialDoc(TopKeys, PlaneKeys, VecKeys \ {"x"}) }

\* The values set in the vector size spin box.
ViewSizes == {2, 3}

InitView ==
    /\ img = [width |-> 1, height |-> 1, px |-> << <<0, 0, 0, 0>> >>]
    /\ margin_error = 0
    /\ ccvi_file = NoFile
    /\ out = NoOut
    /\ pc = "viewer"
    /\ viewer = ViewerInit

codec == <<img, margin_error, ccvi_file, out, pc>>

OpenAny ==
    /\ viewer.alive
    /\ \E d \in ViewDocs : viewer' = load_ccvi_file(viewer, d)
    /\ UNCHANGED codec

ZoomIn ==
    /\ viewer.alive
    /\ viewer' = slot(zoom_in(viewer))
    /\ UNCHANGED codec

ZoomOut ==
    /\ viewer.alive
    /\ viewer' = slot(zoom_out(viewer))
    /\ UNCHANGED codec

ResetView ==
    /\ viewer.alive
    /\ viewer' = slot(reset_view(viewer))
    /\ UNCHANGED codec

\* The check boxes and the spin box signal changes only.
OnVectorToggle ==
    /\ viewer.alive
    /\ viewer' = slot(on_vector_toggle(viewer, ~viewer.show_vectors))
    /\ UNCHANGED codec

OnVectorSizeChange ==
    /\ viewer.alive
    /\ \E size \in ViewSizes \ {viewer.vector_size} :
         viewer' = slot(on_vector_size_change(viewer, size))
    /\ UNCHANGED codec

OnAnimationToggle ==
    /\ viewer.alive
    /\ viewer' = slot(on_animation_toggle(viewer, ~viewer.is_animating))
    /\ UNCHANGED codec

\* The timer's timeout, while the timer runs.
OnAnimationFrame ==
    /\ viewer.alive
    /\ viewer.timer_active
    /\ viewer' = slot(on_animation_frame(viewer))
    /\ UNCHANGED codec

NextView ==
    \/ OpenAny
    \/ ZoomIn
    \/ ZoomOut
    \/ ResetView
    \/ OnVectorToggle
    \/ OnVectorSizeChange
    \/ OnAnimationToggle
    \/ OnAnimationFrame

SpecView == InitView /\ [][NextView]_vars

\* ------------------------------------------------------- claims: viewer

\* C10: with a document loaded, whenever a handler has returned the cached
\* base image is the rendering of ccvi_data under the current show_vectors,
\* vector_size, is_animating and animation_phase, and needs_rerender is False.
C10_CacheCoherent ==
    (viewer.alive /\ ~Falsy(viewer.ccvi_data) /\ ~render_raises(viewer.ccvi_data)) =>
        /\ viewer.needs_rerender = FALSE
        /\ viewer.original_pixmap =
               base_image(viewer.ccvi_data, viewer.show_vectors, viewer.vector_size,
                          viewer.is_animating, viewer.animation_phase)

====
